---------------------------- MODULE Spec2Model ----------------------------
(***************************************************************************)
(* A model of feed_ursus.py (map_field_value, map_record,                  *)
(* thumbnail_from_child, thumbnail_from_manifest, load_csv) and of         *)
(* date_parser.py (get_dates, get_date).                                   *)
(*                                                                         *)
(* Python values are tagged records, so that values of different Python    *)
(* types can be compared:                                                  *)
(*   [t |-> "null"]                         None                           *)
(*   [t |-> "str",  s |-> <<...>>]          a string, as a sequence of     *)
(*                                          symbols (<<>> is '')           *)
(*   [t |-> "list", l |-> <<...>>]          a list of values               *)
(*   [t |-> "datetime", year, month, day]   datetime.datetime              *)
(*   [t |-> "int", n |-> 5]                 an int                         *)
(*   [t |-> "raise", e |-> "KeyError"]      an exception leaving a call    *)
(***************************************************************************)
EXTENDS Integers, Sequences, FiniteSets, TLC

VARIABLES
    \* date_parser.get_dates
    d_pc,       \* "start" | "loop" | "iterated" | "returned"
    dates,      \* the argument: "iterable" | "not_iterable"
    date,       \* the loop variable: the element consumed last
    solr_dts,   \* the set being accumulated
    added,      \* what the last iteration put into solr_dts
    parsed_ok,  \* every value get_date has returned so far that is not None
    d_result,   \* the return value
    \* feed_ursus.map_field_value
    f_pc,       \* "call" | "returned"
    row,        \* the input row: column name -> None or a string
    field_name, \* the output field being mapped
    mapping,    \* mapper.FIELD_MAPPING[field_name]
    config,     \* the config dict
    f_result,   \* the value returned, or the exception raised
    \* feed_ursus.map_record, thumbnail_from_child, thumbnail_from_manifest
    r_pc,          \* "call" | "returned" | "raised"
    field_mapping, \* mapper.FIELD_MAPPING: output field -> rule
    response,      \* what requests.get answers
    record,        \* the record: output field -> value
    fetched,       \* whether requests.get was called
    thumb,         \* what a thumbnail function returned or raised
    \* feed_ursus.load_csv
    l_pc,          \* "loop" | "done" | "raised"
    l_i,           \* rows of the data frame the loop has passed
    l_mapped,      \* rows handed to map_record so far
    solr_client,   \* whether a solr client is configured (line 39)
    first_row,     \* line 56
    out            \* the records handed to solr or printed, in order

dates_vars == <<d_pc, dates, date, solr_dts, added, parsed_ok, d_result>>
field_vars == <<f_pc, row, field_name, mapping, config, f_result>>

record_vars == <<r_pc, field_mapping, response, record, fetched, thumb>>
load_vars == <<l_pc, l_i, l_mapped, solr_client, first_row, out>>

vars == <<dates_vars, field_vars, record_vars, load_vars>>

-----------------------------------------------------------------------------
(* Python values *)

None == [t |-> "null"]
Str(s) == [t |-> "str", s |-> s]
List(l) == [t |-> "list", l |-> l]
PyInt(n) == [t |-> "int", n |-> n]
Datetime(y, m, d) == [t |-> "datetime", year |-> y, month |-> m, day |-> d]
Raise(e) == [t |-> "raise", e |-> e]

\* bool(v): None, '', [] and 0 are falsy; a datetime is always truthy.
Truthy(v) ==
    CASE v.t = "null" -> FALSE
      [] v.t = "str" -> v.s # <<>>
      [] v.t = "list" -> v.l # <<>>
      [] v.t = "int" -> v.n # 0
      [] OTHER -> TRUE

-----------------------------------------------------------------------------
(* Each specification below runs one part of the program; the variables of the
   other parts rest at these values. *)

DatesIdle ==
    /\ d_pc = "idle" /\ dates = "not_iterable" /\ date = None
    /\ solr_dts = {} /\ added = {} /\ parsed_ok = {} /\ d_result = None

FieldIdle ==
    /\ f_pc = "idle" /\ row = <<>> /\ field_name = <<"id">> /\ mapping = None
    /\ config = <<>> /\ f_result = None

RecordIdle ==
    /\ r_pc = "idle" /\ field_mapping = <<>> /\ response = None /\ record = <<>>
    /\ fetched = FALSE /\ thumb = None

LoadIdle ==
    /\ l_pc = "idle" /\ l_i = 0 /\ l_mapped = 0 /\ solr_client = FALSE
    /\ first_row = TRUE /\ out = <<>>

-----------------------------------------------------------------------------
(* feed_ursus.py: map_field_value *)

\* Bound of the field model: the length of a cell, in characters.
MaxCellLen == 4

RECURSIVE SeqMap(_, _), SeqFilter(_, _), Flatten(_)
SeqMap(Op(_), s) ==
    IF s = <<>> THEN <<>> ELSE <<Op(Head(s))>> \o SeqMap(Op, Tail(s))
SeqFilter(Keep(_), s) ==
    IF s = <<>> THEN <<>>
    ELSE (IF Keep(Head(s)) THEN <<Head(s)>> ELSE <<>>) \o SeqFilter(Keep, Tail(s))
Flatten(ss) ==
    IF ss = <<>> THEN <<>> ELSE Head(ss) \o Flatten(Tail(ss))

\* The MARC delimiter of line 150, as characters.
MarcDelimiter == <<"|", "~", "|">>

\* str.find(sep): the first index at which sep stands in s, 0 when nowhere.
Find(s, sep) ==
    LET at == {i \in 1..(Len(s) - Len(sep) + 1) :
                   SubSeq(s, i, i + Len(sep) - 1) = sep}
    IN IF at = {} THEN 0 ELSE CHOOSE i \in at : \A j \in at : i <= j

\* s.split(sep) on character sequences: cut at the leftmost occurrence, go on
\* after it; the result is a sequence of character sequences.
RECURSIVE Split(_, _)
Split(s, sep) ==
    LET i == Find(s, sep) IN
    IF i = 0 THEN <<s>>
    ELSE <<SubSeq(s, 1, i - 1)>> \o Split(SubSeq(s, i + Len(sep), Len(s)), sep)

\* row.get(csv_field)
RowGet(r, csv_field) == IF csv_field \in DOMAIN r THEN r[csv_field] ELSE None

\* Field names are sequences of tokens: "_" or a run of letters and digits.
\* Every token is made of \w characters.
genre_tesim == <<"genre", "_", "tesim">>
resource_type_tesim == <<"resource", "_", "type", "_", "tesim">>
id_field == <<"id">>

\* re.sub(r"_\w+$", "", field_name), line 152.  \w matches "_" too, so a match
\* can start at any underscore that is not the last token; re.sub takes the
\* leftmost one and the match runs to the end of the name.
UnderscorePlaces(name) == {i \in 1..(Len(name) - 1) : name[i] = "_"}

StripFromLastUnderscore(name) ==
    IF UnderscorePlaces(name) = {} THEN name
    ELSE LET i == CHOOSE i \in UnderscorePlaces(name) :
                      \A j \in UnderscorePlaces(name) : j <= i
         IN SubSeq(name, 1, i - 1)

FieldNameWithoutSuffix(name) ==
    IF UnderscorePlaces(name) = {} THEN name
    ELSE LET i == CHOOSE i \in UnderscorePlaces(name) :
                      \A j \in UnderscorePlaces(name) : i <= j
         IN SubSeq(name, 1, i - 1)

\* config.get("controlled_fields", {})
ControlledFields(cfg) ==
    IF "controlled_fields" \in DOMAIN cfg THEN cfg["controlled_fields"]
    ELSE <<>>

\* terms.get(value, value), line 155.
TermsGet(terms, value) == IF value \in DOMAIN terms THEN terms[value] ELSE value

\* Lines 146-150: the cells of the mapped columns, split, in the order of the
\* mapping; a cell that is None or '' adds nothing.
ColumnFragments(r, csv_fields) ==
    LET OfColumn(csv_field) ==
            LET input_value == RowGet(r, csv_field) IN
            IF Truthy(input_value) THEN Split(input_value.s, MarcDelimiter) ELSE <<>>
    IN Flatten(SeqMap(OfColumn, csv_fields))

\* Lines 152-155: the controlled-vocabulary pass.
ControlledTerms(name, cfg, output) ==
    LET field_name_without_suffix == FieldNameWithoutSuffix(name) IN
    IF field_name_without_suffix \in DOMAIN ControlledFields(cfg)
    THEN LET terms == ControlledFields(cfg)[field_name_without_suffix]
             Get(value) == TermsGet(terms, value)
         IN SeqMap(Get, output)
    ELSE output

\* Line 157: remove untruthy values like ''.
RemoveUntruthyKeepsAll(output) == output

RemoveUntruthy(output) ==
    LET Keep(value) == value # <<>> IN SeqFilter(Keep, output)

\* A callable of mapper.py applied to the row.  The callables modelled read
\* one column and return its cell as it is (a string, '' or None).
CallMapping(m, r) == RowGet(r, m.reads)

\* Lines 138-139: a string is the list of one column name.
Columns(m) ==
    IF m.t = "column" THEN <<m.c>> ELSE IF m.t = "columns" THEN m.cs ELSE <<>>

\* Line 141: isinstance(mapping, typing.Collection), after the string was made
\* a list.
IsCollectionCoerced(m) == TRUE

IsCollection(m) == m.t \in {"column", "columns"}

\* map_field_value(row, field_name, config) with FIELD_MAPPING[field_name] = m.
\* Rules: None | [t |-> "callable", reads |-> column] | [t |-> "column", c |-> column]
\*        | [t |-> "columns", cs |-> <<column, ...>>] | anything else.
map_field_value(r, name, m, cfg) ==
    IF m = None THEN None
    ELSE IF m.t = "callable" THEN CallMapping(m, r)
    ELSE IF ~IsCollection(m) THEN Raise("TypeError")
    ELSE LET csv_fields == Columns(m)
             output == ColumnFragments(r, csv_fields)
             mapped == ControlledTerms(name, cfg, output)
             kept == RemoveUntruthy(mapped)
         IN List(SeqMap(Str, kept))

CellChars == {"1", "|", "~"}
CellStrings == UNION {[1..n -> CellChars] : n \in 0..MaxCellLen}

\* The vocabulary table of the model: term id "1" has the term "Photograph".
PhotographTerms == (<<"1">> :> <<"P", "h", "o", "t", "o", "g", "r", "a", "p", "h">>)

FieldNames == {genre_tesim, resource_type_tesim, id_field}

FieldMappings ==
    { None, [t |-> "callable", reads |-> "Genre"], PyInt(5),
      [t |-> "column", c |-> "Genre"],
      [t |-> "columns", cs |-> <<"Genre", "Type">>],
      [t |-> "columns", cs |-> <<"Type", "Genre", "Missing">>] }

FieldConfigs ==
    { [data_frame |-> <<>>],
      [controlled_fields |-> (<<"genre">> :> PhotographTerms)],
      [controlled_fields |-> (<<"resource", "_", "type">> :> PhotographTerms)],
      [controlled_fields |-> (<<"resource">> :> PhotographTerms)] }

FieldRows ==
    { ("Genre" :> g) @@ ("Type" :> ty) :
        g \in {None} \cup {Str(s) : s \in CellStrings},
        ty \in {None, Str(<<"~">>), Str(<<"1", "|", "~", "|">>)} }

InitField ==
    /\ DatesIdle /\ RecordIdle /\ LoadIdle
    /\ f_pc = "call"
    /\ row \in FieldRows
    /\ field_name \in FieldNames
    /\ mapping \in FieldMappings
    /\ config \in FieldConfigs
    /\ f_result = None

\* lines 132-133
MapFieldNone ==
    /\ f_pc = "call" /\ mapping = None
    /\ f_pc' = "returned"
    /\ f_result' = map_field_value(row, field_name, mapping, config)
    /\ UNCHANGED <<row, field_name, mapping, config, dates_vars, record_vars, load_vars>>

\* lines 135-136
MapFieldCallable ==
    /\ f_pc = "call" /\ mapping # None /\ mapping.t = "callable"
    /\ f_pc' = "returned"
    /\ f_result' = map_field_value(row, field_name, mapping, config)
    /\ UNCHANGED <<row, field_name, mapping, config, dates_vars, record_vars, load_vars>>

\* lines 141-144
MapFieldTypeError ==
    /\ f_pc = "call" /\ mapping # None
    /\ mapping.t \notin {"callable", "column", "columns"}
    /\ f_pc' = "raised"
    /\ f_result' = map_field_value(row, field_name, mapping, config)
    /\ UNCHANGED <<row, field_name, mapping, config, dates_vars, record_vars, load_vars>>

\* lines 138-157
MapFieldColumns ==
    /\ f_pc = "call" /\ mapping # None /\ mapping.t \in {"column", "columns"}
    /\ f_pc' = "returned"
    /\ f_result' = map_field_value(row, field_name, mapping, config)
    /\ UNCHANGED <<row, field_name, mapping, config, dates_vars, record_vars, load_vars>>

NextField ==
    \/ MapFieldNone
    \/ MapFieldCallable
    \/ MapFieldTypeError
    \/ MapFieldColumns

SpecField == InitField /\ [][NextField]_vars

-----------------------------------------------------------------------------
(* Properties of map_field_value *)

\* The fragments a column rule names, stated apart from the model of the loop:
\* per column in rule order, the pieces of a non-empty cell in split order.
RECURSIVE FragmentsInRuleOrder(_, _)
FragmentsInRuleOrder(r, cols) ==
    IF cols = <<>> THEN <<>>
    ELSE LET cell == IF Head(cols) \in DOMAIN r THEN r[Head(cols)] ELSE None
         IN (IF cell = None \/ cell.s = <<>> THEN <<>>
             ELSE Split(cell.s, MarcDelimiter))
            \o FragmentsInRuleOrder(r, Tail(cols))

RuleColumns == IF mapping.t = "column" THEN <<mapping.c>> ELSE mapping.cs

ColumnRuleReturned ==
    f_pc = "returned" /\ mapping # None /\ mapping.t \in {"column", "columns"}

C4_TableOfNameWithoutLastSuffix ==
    ColumnRuleReturned =>
        LET frags == FragmentsInRuleOrder(row, RuleColumns)
            base == StripFromLastUnderscore(field_name)
            tables == ControlledFields(config)
            Term(v) == IF v \in DOMAIN tables[base] THEN tables[base][v] ELSE v
            NonEmpty(v) == v # <<>>
        IN base \in DOMAIN tables =>
               f_result = List(SeqMap(Str, SeqFilter(NonEmpty, SeqMap(Term, frags))))

-----------------------------------------------------------------------------
(* date_parser.py *)

\* Bound of the date model: the slashes of a date string.
MaxSlashes == 2

\* A date string is a sequence of symbols: "/" or a word that holds no slash.
\* Adjacent symbols stand side by side, <<"1923", "/", "1925">> is "1923/1925".
\* The strings of the model are the slash-free pieces below joined by slashes.
DatePieces == {<<>>, <<"1923">>, <<"1925">>, <<"undated">>}

RECURSIVE JoinSlash(_)
JoinSlash(pieces) ==
    IF Len(pieces) = 1 THEN pieces[1]
    ELSE pieces[1] \o <<"/">> \o JoinSlash(Tail(pieces))

DateStrings ==
    {JoinSlash(pieces) : pieces \in UNION {[1..n -> DatePieces] : n \in 1..(MaxSlashes + 1)}}

\* The elements a dates list can hold: strings, and values that are no string.
Elements == {Str(s) : s \in DateStrings} \cup {None, PyInt(1923)}

\* What dateutil reads in a string of one symbol, with the default
\* datetime(1978, 1, 1) of line 57 filling the month and the day.
SymbolDate(sym) ==
    CASE sym = "1923" -> Datetime(1923, 1, 1)
      [] sym = "1925" -> Datetime(1925, 1, 1)
      [] OTHER -> None

\* dateutil.parser.parse(s, default=datetime(1978, 1, 1)) on the strings of
\* DateStrings, or None where it raises ParserError (a ValueError).  "/" is one
\* of dateutil's jump tokens and is skipped; an unknown word raises; a string
\* with no date raises; a second year raises "Year is already set", and so do
\* two years written side by side (eight digits read as YYYYMMDD name no valid
\* month).
ParserParse(s) ==
    LET IsWord(sym) == sym # "/"
        words == SeqFilter(IsWord, s)
    IN IF Len(words) = 1 THEN SymbolDate(words[1]) ELSE None

\* get_date, lines 56-61: the parsed datetime itself is returned (line 58),
\* None on ValueError.
get_date(s) ==
    LET parsed_date == ParserParse(s) IN
    IF parsed_date = None THEN None ELSE parsed_date

\* RANGE = re.compile(r"(.*)/(.*)"); RANGE.search(date).  The "/" of the
\* pattern can stand at any slash of the string; the first group is greedy, so
\* the match found is the one with the longest first group.  The result is
\* <<>> (no match) or <<start_str, end_str>>, the two groups.
SlashPlaces(s) == {i \in DOMAIN s : s[i] = "/"}

RangeSearchFirstSlash(s) ==
    IF SlashPlaces(s) = {} THEN <<>>
    ELSE LET k == CHOOSE k \in SlashPlaces(s) : \A j \in SlashPlaces(s) : j >= k
         IN <<SubSeq(s, 1, k - 1), SubSeq(s, k + 1, Len(s))>>

RangeSearch(s) ==
    IF SlashPlaces(s) = {} THEN <<>>
    ELSE LET k == CHOOSE k \in SlashPlaces(s) : \A j \in SlashPlaces(s) : j <= k
         IN <<SubSeq(s, 1, k - 1), SubSeq(s, k + 1, Len(s))>>

\* The order of sorted(): datetimes by (year, month, day), ints by value.
SortKey(v) ==
    IF v.t = "datetime" THEN v.year * 10000 + v.month * 100 + v.day ELSE v.n

RECURSIVE Sorted(_)
Sorted(S) ==
    IF S = {} THEN <<>>
    ELSE LET m == CHOOSE m \in S : \A o \in S : SortKey(m) <= SortKey(o)
         IN <<m>> \o Sorted(S \ {m})

\* One iteration of the loop of get_dates (lines 29-42): the values it adds.
DatesOfElement(e) ==
    IF e.t # "str" THEN {}
    ELSE LET match == RangeSearch(e.s) IN
         IF match # <<>>
         THEN LET start == get_date(match[1])
                  end == get_date(match[2])
              IN IF Truthy(start) /\ Truthy(end) THEN {start, end} ELSE {}
         ELSE LET solr_date == get_date(e.s)
              IN IF Truthy(solr_date) THEN {solr_date} ELSE {}

\* The values get_date returned in that iteration that are not None.
ParsedOfElement(e) ==
    IF e.t # "str" THEN {}
    ELSE LET match == RangeSearch(e.s) IN
         (IF match # <<>>
          THEN {get_date(match[1]), get_date(match[2])}
          ELSE {get_date(e.s)}) \ {None}

\* get_dates(dates) for a list given whole.
get_dates(v) ==
    IF v.t # "list" THEN List(<<>>)
    ELSE List(Sorted(UNION {DatesOfElement(v.l[i]) : i \in DOMAIN v.l}))

InitDates ==
    /\ FieldIdle /\ RecordIdle /\ LoadIdle
    /\ d_pc = "start"
    /\ dates \in {"iterable", "not_iterable"}
    /\ date = None
    /\ solr_dts = {}
    /\ added = {}
    /\ parsed_ok = {}
    /\ d_result = None

\* lines 26-27: dates is no iterable.
GetDatesNotIterable ==
    /\ d_pc = "start" /\ dates = "not_iterable"
    /\ d_pc' = "returned"
    /\ d_result' = List(<<>>)
    /\ UNCHANGED <<dates, date, solr_dts, added, parsed_ok, field_vars, record_vars, load_vars>>

\* line 28
GetDatesStart ==
    /\ d_pc = "start" /\ dates = "iterable"
    /\ d_pc' = "loop"
    /\ solr_dts' = {}
    /\ UNCHANGED <<dates, date, added, parsed_ok, d_result, field_vars, record_vars, load_vars>>

\* lines 29-42: the next element of dates.
GetDatesIterate ==
    /\ d_pc \in {"loop", "iterated"}
    /\ \E e \in Elements :
        /\ date' = e
        /\ added' = DatesOfElement(e)
        /\ solr_dts' = solr_dts \cup DatesOfElement(e)
        /\ parsed_ok' = parsed_ok \cup ParsedOfElement(e)
    /\ d_pc' = "iterated"
    /\ UNCHANGED <<dates, d_result, field_vars, record_vars, load_vars>>

\* line 43: dates is exhausted.
GetDatesReturn ==
    /\ d_pc \in {"loop", "iterated"}
    /\ d_pc' = "returned"
    /\ d_result' = List(Sorted(solr_dts))
    /\ UNCHANGED <<dates, date, solr_dts, added, parsed_ok, field_vars, record_vars, load_vars>>

NextDates ==
    \/ GetDatesNotIterable
    \/ GetDatesStart
    \/ GetDatesIterate
    \/ GetDatesReturn

SpecDates == InitDates /\ [][NextDates]_vars

-----------------------------------------------------------------------------
(* Properties of get_dates *)

\* C2: get_dates returns a strictly ascending sequence of distinct integers,
\* each the year component of a value get_date parsed successfully.
C2_AscendingIntegerYears ==
    d_pc = "returned" =>
        /\ d_result.t = "list"
        /\ \A i \in DOMAIN d_result.l : d_result.l[i].t = "int"
        /\ \A i \in DOMAIN d_result.l :
               \E p \in parsed_ok : p.year = d_result.l[i].n
        /\ \A i, j \in DOMAIN d_result.l :
               i < j => d_result.l[i].n < d_result.l[j].n

LastSlash(s) == CHOOSE k \in SlashPlaces(s) : \A j \in SlashPlaces(s) : j <= k

\* C10 (as amended): a string element with at least one slash is split at its
\* LAST slash, both parts are parsed independently and both results are added
\* only if both parse; an element with no slash is parsed as a whole and adds at
\* most one result; an element that is no string adds nothing.
C10_RangeSplitsAtLastSlash ==
    (d_pc = "iterated") =>
        IF date.t # "str" THEN added = {}
        ELSE IF SlashPlaces(date.s) # {}
        THEN LET left == ParserParse(SubSeq(date.s, 1, LastSlash(date.s) - 1))
                 right == ParserParse(SubSeq(date.s, LastSlash(date.s) + 1, Len(date.s)))
             IN added = IF left # None /\ right # None THEN {left, right} ELSE {}
        ELSE added = {ParserParse(date.s)} \ {None}

\* C10 witness: an element with two slashes was consumed and both of its
\* parts' results were added.
C10_Witness ==
    /\ d_pc = "iterated" /\ date.t = "str"
    /\ Cardinality(SlashPlaces(date.s)) = 2
    /\ Cardinality(added) = 2

\* C10 (as claimed): an element is a range only with exactly one slash; with
\* no slash or with more than one it is parsed as a whole and adds at most one
\* year.
C10_RangeOnlyWithOneSlash ==
    (d_pc = "iterated" /\ date.t = "str") =>
        IF Cardinality(SlashPlaces(date.s)) = 1
        THEN LET left == ParserParse(SubSeq(date.s, 1, LastSlash(date.s) - 1))
                 right == ParserParse(SubSeq(date.s, LastSlash(date.s) + 1, Len(date.s)))
             IN added = IF left # None /\ right # None THEN {left, right} ELSE {}
        ELSE /\ added = {ParserParse(date.s)} \ {None}
             /\ Cardinality(added) <= 1

-----------------------------------------------------------------------------
(* feed_ursus.py: thumbnail_from_manifest *)

\* Bound of the manifest model: the canvases of a manifest.
MaxCanvases == 2

thumbnail_url_ss == <<"thumbnail", "_", "url", "_", "ss">>
iiif_manifest_url_ssi == <<"iiif", "_", "manifest", "_", "url", "_", "ssi">>
ark_ssi == <<"ark", "_", "ssi">>
dlcs_collection_name_tesim == <<"dlcs", "_", "collection", "_", "name", "_", "tesim">>
year_tesim == <<"year", "_", "tesim">>
year_isim == <<"year", "_", "isim">>

\* The title and the canvas label "f. 001r" of lines 225 and 260.
FirstFolioRecto == Str(<<"f. 001r">>)

\* The suffix of line 261, one symbol.
IiifSuffix == <<"/full/!200,200/0/default.jpg">>

\* record.get(field)
RecordGet(rec, field) == IF field \in DOMAIN rec THEN rec[field] ELSE None

\* record[field] = value
RecordPut(rec, field, value) ==
    [f \in DOMAIN rec \cup {field} |-> IF f = field THEN value ELSE rec[f]]

\* A dict is the sequence of its <<key, value>> pairs in insertion order;
\* setting a key that is there keeps its place.
DictSet(d, k, v) ==
    IF \E i \in DOMAIN d : d[i][1] = k
    THEN [i \in DOMAIN d |-> IF d[i][1] = k THEN <<k, v>> ELSE d[i]]
    ELSE Append(d, <<k, v>>)

DictGet(d, k) ==
    IF \E i \in DOMAIN d : d[i][1] = k
    THEN d[CHOOSE i \in DOMAIN d : d[i][1] = k][2]
    ELSE None

\* Lines 253-257: the dict comprehension over the canvases of every sequence.
\* A canvas is a record that may lack "label" or "service_id" (the path
\* images[0].resource.service.@id).
RECURSIVE CanvasDict(_, _)
CanvasDict(cs, d) ==
    IF cs = <<>> THEN d
    ELSE CanvasDict(Tail(cs), DictSet(d, Head(cs).label, Head(cs).service_id))

\* Lines 247-261, the body of the try.  resp is what requests.get answers:
\* [t |-> "error"] (the request fails), [t |-> "text"] (a body that is no
\* JSON), [t |-> "json", body |-> manifest].
ManifestTry(rec, resp) ==
    LET manifest_url == RecordGet(rec, iiif_manifest_url_ssi) IN
    IF manifest_url.t # "str" THEN None
    ELSE IF resp.t = "error" THEN Raise("ConnectionError")
    ELSE IF resp.t = "text" THEN Raise("JSONDecodeError")
    ELSE IF "sequences" \notin DOMAIN resp.body THEN Raise("KeyError")
    ELSE LET cs == Flatten(resp.body.sequences) IN
         IF \E i \in DOMAIN cs : {"label", "service_id"} \ DOMAIN cs[i] # {}
         THEN Raise("KeyError")
         ELSE LET canvases == CanvasDict(cs, <<>>)
                  recto == DictGet(canvases, FirstFolioRecto)
              IN IF Truthy(recto) THEN Str(recto.s \o IiifSuffix)
                 ELSE IF canvases = <<>> THEN Raise("IndexError")
                 ELSE IF canvases[1][2].t # "str" THEN Raise("TypeError")
                 ELSE Str(canvases[1][2].s \o IiifSuffix)

\* Lines 263-264: the bare except.
ExceptConnectionError(v) ==
    IF v.t = "raise" /\ v.e = "ConnectionError" THEN None ELSE v

BareExcept(v) == IF v.t = "raise" THEN None ELSE v

thumbnail_from_manifest(rec, resp) == BareExcept(ManifestTry(rec, resp))

\* Whether line 250 is reached.
ManifestFetched(rec) == RecordGet(rec, iiif_manifest_url_ssi).t = "str"

ManifestUrl == Str(<<"https://iiif.example/manifest">>)

Canvases ==
    [label : {FirstFolioRecto, Str(<<"f. 002r">>)},
     service_id : {Str(<<"https://iiif.example/a">>), Str(<<"https://iiif.example/b">>), None}]
    \cup {[label |-> FirstFolioRecto], [service_id |-> Str(<<"https://iiif.example/a">>)]}

CanvasLists == UNION {[1..n -> Canvases] : n \in 0..MaxCanvases}

\* The canvases in one sequence, or cut into two sequences.
Manifests ==
    {[label |-> Str(<<"no sequences">>)]}
    \cup {[sequences |-> <<>>]}
    \cup {[sequences |-> <<cs>>] : cs \in CanvasLists}
    \cup {[sequences |-> <<SubSeq(cs, 1, 1), SubSeq(cs, 2, Len(cs))>>] :
            cs \in {c \in CanvasLists : Len(c) >= 2}}

Responses ==
    {[t |-> "error"], [t |-> "text"]} \cup {[t |-> "json", body |-> m] : m \in Manifests}

ManifestRecords ==
    { <<>>,
      (iiif_manifest_url_ssi :> None),
      (iiif_manifest_url_ssi :> List(<<ManifestUrl>>)),
      (iiif_manifest_url_ssi :> ManifestUrl) }

InitManifest ==
    /\ DatesIdle /\ FieldIdle /\ LoadIdle
    /\ r_pc = "call"
    /\ field_mapping = <<>>
    /\ record \in ManifestRecords
    /\ response \in Responses
    /\ fetched = FALSE
    /\ thumb = None

\* lines 247-249: no manifest URL, nothing is fetched.
ManifestNoUrl ==
    /\ r_pc = "call" /\ ~ManifestFetched(record)
    /\ thumb' = thumbnail_from_manifest(record, response)
    /\ r_pc' = IF thumb'.t = "raise" THEN "raised" ELSE "returned"
    /\ UNCHANGED <<field_mapping, response, record, fetched>>
    /\ UNCHANGED <<dates_vars, field_vars, load_vars>>

\* lines 250-264: the manifest is fetched.
ManifestFetch ==
    /\ r_pc = "call" /\ ManifestFetched(record)
    /\ fetched' = TRUE
    /\ thumb' = thumbnail_from_manifest(record, response)
    /\ r_pc' = IF thumb'.t = "raise" THEN "raised" ELSE "returned"
    /\ UNCHANGED <<field_mapping, response, record>>
    /\ UNCHANGED <<dates_vars, field_vars, load_vars>>

NextManifest ==
    \/ ManifestNoUrl
    \/ ManifestFetch

SpecManifest == InitManifest /\ [][NextManifest]_vars

\* A response from which no thumbnail can be read: the request fails, the body
\* is no JSON, "sequences" is missing, a canvas lacks a key, or there is no
\* canvas at all.
FailedLookup ==
    \/ response.t \in {"error", "text"}
    \/ "sequences" \notin DOMAIN response.body
    \/ \A i \in DOMAIN response.body.sequences : response.body.sequences[i] = <<>>
    \/ \E i \in DOMAIN response.body.sequences :
         \E j \in DOMAIN response.body.sequences[i] :
            DOMAIN response.body.sequences[i][j] # {"label", "service_id"}

\* C7: thumbnail_from_manifest never lets an exception out: with a manifest URL
\* that is no string it returns None without fetching, and a failed fetch,
\* parse or access gives None.
C7_ManifestNeverRaises ==
    /\ r_pc # "raised"
    /\ r_pc = "returned" =>
        /\ thumb.t # "raise"
        /\ RecordGet(record, iiif_manifest_url_ssi).t # "str" =>
               (thumb = None /\ ~fetched)
        /\ FailedLookup => thumb = None

\* C7 witness: a manifest was fetched, one of its canvases lacks a key, and the
\* function returned None.
C7_Witness ==
    /\ r_pc = "returned" /\ fetched /\ thumb = None
    /\ response.t = "json" /\ "sequences" \in DOMAIN response.body
    /\ \E i \in DOMAIN response.body.sequences :
         \E j \in DOMAIN response.body.sequences[i] :
            "service_id" \notin DOMAIN response.body.sequences[i][j]

-----------------------------------------------------------------------------
(* feed_ursus.py: thumbnail_from_child *)

\* Bound of the child model: the rows of the data frame.
MaxRows == 2

\* A data frame is [columns |-> the column names, rows |-> the rows in table
\* order], every row a function on the columns.

\* mapper.thumbnail_url(row): the thumbnail of one row, a string or None.
thumbnail_url(r) == RowGet(r, "Thumbnail URL")

\* series == value, for one cell: the cells of the table are strings or None,
\* and None equals nothing.
CellEquals(cell, value) == cell.t = "str" /\ cell = value

\* thumbnail_from_child(record, config), lines 219-233.
thumbnail_from_child(rec, cfg) ==
    IF "data_frame" \notin DOMAIN cfg THEN None
    ELSE IF ark_ssi \notin DOMAIN rec THEN Raise("KeyError")
    ELSE LET ark == rec[ark_ssi]
             data == cfg["data_frame"]
         IN IF "Parent ARK" \notin data.columns THEN Raise("KeyError")
            ELSE LET IsChild(r) == CellEquals(r["Parent ARK"], ark)
                     children == SeqFilter(IsChild, data.rows)
                 IN IF "Title" \notin data.columns THEN Raise("KeyError")
                    ELSE LET IsRecto(r) == CellEquals(r["Title"], FirstFolioRecto)
                             rectos == SeqFilter(IsRecto, children)
                             representative == IF Len(rectos) = 0 THEN children ELSE rectos
                             thumbs == SeqFilter(Truthy, SeqMap(thumbnail_url, representative))
                         IN IF thumbs = <<>> THEN None ELSE thumbs[1]

WorkArk == Str(<<"ark:/21198/work">>)
OtherArk == Str(<<"ark:/21198/other">>)
ThumbA == Str(<<"https://iiif.example/a/full/!200,200/0/default.jpg">>)
ThumbB == Str(<<"https://iiif.example/b/full/!200,200/0/default.jpg">>)

AllColumns == {"Item ARK", "Parent ARK", "Title", "Thumbnail URL"}

ChildRows ==
    { ("Item ARK" :> Str(<<"ark:/21198/page">>)) @@ ("Parent ARK" :> p)
        @@ ("Title" :> ti) @@ ("Thumbnail URL" :> th) :
        p \in {WorkArk, OtherArk, None},
        ti \in {FirstFolioRecto, Str(<<"f. 001v">>)},
        th \in {None, ThumbA, ThumbB} }

Restrict(r, cols) == [c \in cols |-> r[c]]

DataFrames ==
    { [columns |-> cols, rows |-> [i \in DOMAIN rows |-> Restrict(rows[i], cols)]] :
        cols \in {AllColumns, AllColumns \ {"Parent ARK"}, AllColumns \ {"Title"}},
        rows \in UNION {[1..n -> ChildRows] : n \in 0..MaxRows} }

ChildConfigs ==
    {[collection_names |-> <<>>]}
    \cup {[collection_names |-> <<>>, data_frame |-> df] : df \in DataFrames}

InitChild ==
    /\ DatesIdle /\ LoadIdle
    /\ r_pc = "call"
    /\ field_mapping = <<>>
    /\ record \in {(ark_ssi :> WorkArk), (ark_ssi :> None)}
    /\ row = <<>> /\ field_name = <<"id">> /\ mapping = None /\ f_pc = "idle"
    /\ f_result = None
    /\ config \in ChildConfigs
    /\ response = None
    /\ fetched = FALSE
    /\ thumb = None

\* line 219-220
ChildNoDataFrame ==
    /\ r_pc = "call" /\ "data_frame" \notin DOMAIN config
    /\ thumb' = thumbnail_from_child(record, config)
    /\ r_pc' = "returned"
    /\ UNCHANGED <<field_mapping, response, record, fetched>>
    /\ UNCHANGED <<dates_vars, field_vars, load_vars>>

\* lines 222-233, returning
ChildReturn ==
    /\ r_pc = "call" /\ "data_frame" \in DOMAIN config
    /\ thumbnail_from_child(record, config).t # "raise"
    /\ thumb' = thumbnail_from_child(record, config)
    /\ r_pc' = "returned"
    /\ UNCHANGED <<field_mapping, response, record, fetched>>
    /\ UNCHANGED <<dates_vars, field_vars, load_vars>>

\* lines 222-233, an exception leaves the function
ChildRaise ==
    /\ r_pc = "call" /\ "data_frame" \in DOMAIN config
    /\ thumbnail_from_child(record, config).t = "raise"
    /\ thumb' = thumbnail_from_child(record, config)
    /\ r_pc' = "raised"
    /\ UNCHANGED <<field_mapping, response, record, fetched>>
    /\ UNCHANGED <<dates_vars, field_vars, load_vars>>

NextChild ==
    \/ ChildNoDataFrame
    \/ ChildReturn
    \/ ChildRaise

SpecChild == InitChild /\ [][NextChild]_vars

\* The rows of the table that are children of the record, in table order, and
\* those among them titled "f. 001r".
RECURSIVE ChildrenOf(_, _)
ChildrenOf(rows, ark) ==
    IF rows = <<>> THEN <<>>
    ELSE (IF "Parent ARK" \in DOMAIN Head(rows) /\ Head(rows)["Parent ARK"] = ark
             /\ ark # None
          THEN <<Head(rows)>> ELSE <<>>) \o ChildrenOf(Tail(rows), ark)

RECURSIVE TitledRecto(_)
TitledRecto(rows) ==
    IF rows = <<>> THEN <<>>
    ELSE (IF "Title" \in DOMAIN Head(rows) /\ Head(rows)["Title"] = FirstFolioRecto
          THEN <<Head(rows)>> ELSE <<>>) \o TitledRecto(Tail(rows))

RECURSIVE FirstThumbnail(_)
FirstThumbnail(rows) ==
    IF rows = <<>> THEN None
    ELSE IF thumbnail_url(Head(rows)) # None THEN thumbnail_url(Head(rows))
    ELSE FirstThumbnail(Tail(rows))

\* C8: thumbnail_from_child never raises, for any record and any table: it
\* returns the first thumbnail URL, in table order, among the children titled
\* "f. 001r" (among all children when none is), and None when there is none.
C8_ChildNeverRaises ==
    /\ r_pc # "raised"
    /\ (r_pc = "returned" /\ "data_frame" \in DOMAIN config) =>
        LET children == ChildrenOf(config["data_frame"].rows, record[ark_ssi])
            candidates == IF TitledRecto(children) = <<>> THEN children
                          ELSE TitledRecto(children)
        IN thumb = FirstThumbnail(candidates)

-----------------------------------------------------------------------------
(* feed_ursus.py: map_record *)

\* Lines 171-174: the base pass, one value per field of FIELD_MAPPING.
BasePass(r, cfg, fm) ==
    [f \in DOMAIN fm |-> map_field_value(r, f, fm[f], cfg)]

\* Lines 177-181: record.get("thumbnail_url_ss") or thumbnail_from_child(...)
\* or thumbnail_from_manifest(record).  "or" takes the first operand that is
\* truthy, evaluates no operand after it, and gives the last one when none is.
ThumbnailFirstNotNone(rec, cfg, resp) ==
    IF RecordGet(rec, thumbnail_url_ss) # None THEN RecordGet(rec, thumbnail_url_ss)
    ELSE IF thumbnail_from_child(rec, cfg) # None THEN thumbnail_from_child(rec, cfg)
    ELSE thumbnail_from_manifest(rec, resp)

Thumbnail(rec, cfg, resp) ==
    IF Truthy(RecordGet(rec, thumbnail_url_ss)) THEN RecordGet(rec, thumbnail_url_ss)
    ELSE IF Truthy(thumbnail_from_child(rec, cfg)) THEN thumbnail_from_child(rec, cfg)
    ELSE thumbnail_from_manifest(rec, resp)

\* Whether the "or" chain of lines 177-181 reaches thumbnail_from_manifest and
\* that function reaches requests.get.
ThumbnailFetches(rec, cfg) ==
    /\ ~Truthy(RecordGet(rec, thumbnail_url_ss))
    /\ ~Truthy(thumbnail_from_child(rec, cfg))
    /\ ManifestFetched(rec)

\* Lines 184-186: the collection name.
CollectionNameIfUnset(r, cfg, rec) ==
    IF /\ "Parent ARK" \in DOMAIN r
       /\ r["Parent ARK"] \in DOMAIN cfg["collection_names"]
       /\ ~Truthy(RecordGet(rec, dlcs_collection_name_tesim))
    THEN RecordPut(rec, dlcs_collection_name_tesim,
                   List(<<cfg["collection_names"][r["Parent ARK"]]>>))
    ELSE rec

CollectionName(r, cfg, rec) ==
    IF "Parent ARK" \in DOMAIN r /\ r["Parent ARK"] \in DOMAIN cfg["collection_names"]
    THEN LET dlcs_collection_name == cfg["collection_names"][r["Parent ARK"]]
         IN RecordPut(rec, dlcs_collection_name_tesim, List(<<dlcs_collection_name>>))
    ELSE rec

\* Lines 189-196: the facet fields, <<facet, display>> in the order of the code.
FacetPairs ==
    << <<<<"genre", "_", "sim">>, <<"genre", "_", "tesim">>>>,
       <<<<"human", "_", "readable", "_", "language", "_", "sim">>,
         <<"language", "_", "tesim">>>>,
       <<<<"human", "_", "readable", "_", "resource", "_", "type", "_", "sim">>,
         <<"resource", "_", "type", "_", "tesim">>>>,
       <<<<"location", "_", "sim">>, <<"location", "_", "tesim">>>>,
       <<<<"member", "_", "of", "_", "collections", "_", "ssim">>,
         dlcs_collection_name_tesim>>,
       <<<<"named", "_", "subject", "_", "sim">>, <<"named", "_", "subject", "_", "tesim">>>>,
       <<<<"subject", "_", "sim">>, <<"subject", "_", "tesim">>>>,
       <<year_isim, year_tesim>> >>

RECURSIVE Facets(_, _)
Facets(rec, pairs) ==
    IF pairs = <<>> THEN rec
    ELSE Facets(RecordPut(rec, Head(pairs)[1], RecordGet(rec, Head(pairs)[2])),
                Tail(pairs))

\* map_record(row, config), lines 171-198: the record, or the exception that
\* leaves the function.
map_record(r, cfg, fm, resp) ==
    LET base == BasePass(r, cfg, fm) IN
    IF \E f \in DOMAIN base : base[f].t = "raise"
    THEN base[CHOOSE f \in DOMAIN base : base[f].t = "raise"]
    ELSE LET thumbnail == Thumbnail(base, cfg, resp) IN
         IF thumbnail.t = "raise" THEN thumbnail
         ELSE Facets(CollectionName(r, cfg, RecordPut(base, thumbnail_url_ss, thumbnail)),
                     FacetPairs)

IsRaise(v) == DOMAIN v = {"t", "e"}

CollectionArk == Str(<<"ark:/21198/collection">>)
CollectionTitle == Str(<<"St. Catherine's Monastery">>)

RecordColumns ==
    {"Item ARK", "Parent ARK", "Title", "Thumbnail URL", "IIIF Manifest URL",
     "Collection", "Date.normalized"}

\* The row handed to map_record.
RecordRows ==
    { ("Item ARK" :> WorkArk) @@ ("Parent ARK" :> p) @@ ("Title" :> Str(<<"Codex">>))
        @@ ("Thumbnail URL" :> th) @@ ("IIIF Manifest URL" :> mu)
        @@ ("Collection" :> co) @@ ("Date.normalized" :> da) :
        p \in {None, CollectionArk, OtherArk},
        th \in {None, Str(<<>>), ThumbA},
        mu \in {None, ManifestUrl},
        co \in {None, Str(<<"Old name">>)},
        da \in {None, Str(<<"1923", "/", "1925">>),
                Str(<<"1925", "|", "~", "|", "1923">>)} }

\* The rows that follow it in the table.
RecordChildren ==
    { <<>>,
      << ("Item ARK" :> Str(<<"ark:/21198/page">>)) @@ ("Parent ARK" :> WorkArk)
           @@ ("Title" :> FirstFolioRecto) @@ ("Thumbnail URL" :> ThumbB)
           @@ ("IIIF Manifest URL" :> None) @@ ("Collection" :> None)
           @@ ("Date.normalized" :> None) >>,
      << ("Item ARK" :> Str(<<"ark:/21198/page">>)) @@ ("Parent ARK" :> WorkArk)
           @@ ("Title" :> Str(<<"f. 001v">>)) @@ ("Thumbnail URL" :> None)
           @@ ("IIIF Manifest URL" :> None) @@ ("Collection" :> None)
           @@ ("Date.normalized" :> None) >> }

\* FIELD_MAPPING of mapper.py: ark_ssi and the manifest URL are computed from
\* one column; the thumbnail and the collection name are mapped as given.
FieldMappings2(thumbnail_rule, collection_rule) ==
    (ark_ssi :> [t |-> "callable", reads |-> "Item ARK"])
    @@ (iiif_manifest_url_ssi :> [t |-> "callable", reads |-> "IIIF Manifest URL"])
    @@ (thumbnail_url_ss :> thumbnail_rule)
    @@ (dlcs_collection_name_tesim :> collection_rule)
    @@ (year_tesim :> [t |-> "column", c |-> "Date.normalized"])

RecordFieldMappings ==
    { FieldMappings2(th, co) :
        th \in {None, [t |-> "callable", reads |-> "Thumbnail URL"],
                [t |-> "column", c |-> "Thumbnail URL"]},
        co \in {None, [t |-> "column", c |-> "Collection"]} }

RecordResponses ==
    { [t |-> "error"],
      [t |-> "json", body |-> [sequences |-> <<>>]],
      [t |-> "json", body |-> [sequences |->
          << <<[label |-> Str(<<"f. 002r">>), service_id |-> Str(<<"https://iiif.example/a">>)]>> >>]] }

Init ==
    /\ DatesIdle /\ LoadIdle
    /\ f_pc = "idle" /\ field_name = <<"id">> /\ mapping = None /\ f_result = None
    /\ r_pc = "call"
    /\ \E full \in RecordRows, children \in RecordChildren,
          cols \in {RecordColumns, RecordColumns \ {"Parent ARK"}} :
         \* the row is a row of the table: it has the columns of the table
         /\ row = Restrict(full, cols)
         /\ config = [collection_names |-> (CollectionArk :> CollectionTitle),
                      data_frame |->
                          [columns |-> cols,
                           rows |-> <<Restrict(full, cols)>>
                                    \o [i \in DOMAIN children |-> Restrict(children[i], cols)]]]
    /\ field_mapping \in RecordFieldMappings
    /\ response \in RecordResponses
    /\ record = <<>>
    /\ fetched = FALSE
    /\ thumb = None

\* map_record returns the record.
MapRecord ==
    /\ r_pc = "call"
    /\ ~IsRaise(map_record(row, config, field_mapping, response))
    /\ record' = map_record(row, config, field_mapping, response)
    /\ fetched' = ThumbnailFetches(BasePass(row, config, field_mapping), config)
    /\ r_pc' = "returned"
    /\ UNCHANGED <<field_mapping, response, thumb>>
    /\ UNCHANGED <<dates_vars, field_vars, load_vars>>

\* An exception leaves map_record.
MapRecordRaises ==
    /\ r_pc = "call"
    /\ IsRaise(map_record(row, config, field_mapping, response))
    /\ thumb' = map_record(row, config, field_mapping, response)
    /\ r_pc' = "raised"
    /\ UNCHANGED <<field_mapping, response, record, fetched>>
    /\ UNCHANGED <<dates_vars, field_vars, load_vars>>

Next ==
    \/ MapRecord
    \/ MapRecordRaises

Spec == Init /\ [][Next]_vars

-----------------------------------------------------------------------------
(* Properties of map_record *)

\* The value the base pass maps for a field of FIELD_MAPPING.
BaseValue(field) == map_field_value(row, field, field_mapping[field], config)

\* The sorted list of the distinct integer years of a list of datetimes.
YearList(datetimes) ==
    List(Sorted({PyInt(datetimes[i].year) : i \in DOMAIN datetimes}))

\* C1: after map_record returns, year_isim holds the years extracted from the
\* record's date field by get_dates, a sorted list of integers, and no copy of
\* year_tesim.
C1_YearFacetIsExtractedYears ==
    r_pc = "returned" =>
        record[year_isim] = YearList(get_dates(RecordGet(record, year_tesim)).l)

\* C5 (as amended): the thumbnail field is the first truthy value (neither
\* None nor empty) among the base-pass value, thumbnail_from_child and
\* thumbnail_from_manifest, in this order; the manifest is fetched only when
\* both earlier sources gave None or an empty value; and the field is None
\* exactly when no source gave a truthy value.
C5_ThumbnailFirstTruthy ==
    r_pc = "returned" =>
        LET base == BasePass(row, config, field_mapping)
            a == BaseValue(thumbnail_url_ss)
            b == thumbnail_from_child(base, config)
            c == thumbnail_from_manifest(base, response)
        IN /\ record[thumbnail_url_ss] =
                  IF Truthy(a) THEN a ELSE IF Truthy(b) THEN b ELSE c
           /\ fetched => (~Truthy(a) /\ ~Truthy(b))
           /\ (record[thumbnail_url_ss] = None)
                  <=> (~Truthy(a) /\ ~Truthy(b) /\ ~Truthy(c))

\* C5 witness: the base pass mapped the empty list, a child row gave a URL,
\* and the field holds the child's URL.
C5_Witness ==
    /\ r_pc = "returned"
    /\ BaseValue(thumbnail_url_ss) = List(<<>>)
    /\ record[thumbnail_url_ss] = ThumbB

\* C5 (as claimed): the thumbnail field is the first value that is not None
\* among the three sources; a later source is used only when every earlier one
\* gave None; the field is None exactly when all three gave None.
C5_ThumbnailFirstNotNone ==
    r_pc = "returned" =>
        LET base == BasePass(row, config, field_mapping)
            a == BaseValue(thumbnail_url_ss)
            b == thumbnail_from_child(base, config)
            c == thumbnail_from_manifest(base, response)
        IN /\ record[thumbnail_url_ss] =
                  IF a # None THEN a ELSE IF b # None THEN b ELSE c
           /\ (record[thumbnail_url_ss] = None)
                  <=> (a = None /\ b = None /\ c = None)

\* C6: for a row whose Parent ARK is a key of collection_names the collection
\* name of the record is the one-element list of the indexed title, whatever
\* the base pass mapped; for any other row it is the base-pass value.
C6_CollectionNameBackfill ==
    r_pc = "returned" =>
        IF /\ "Parent ARK" \in DOMAIN row
           /\ row["Parent ARK"] \in DOMAIN config["collection_names"]
        THEN record[dlcs_collection_name_tesim] =
                 List(<<config["collection_names"][row["Parent ARK"]]>>)
        ELSE record[dlcs_collection_name_tesim] = BaseValue(dlcs_collection_name_tesim)

\* C6 witness: the base pass mapped a non-empty collection name and the
\* indexed title replaced it.
C6_Witness ==
    /\ r_pc = "returned"
    /\ BaseValue(dlcs_collection_name_tesim) = List(<<Str(<<"Old name">>)>>)
    /\ record[dlcs_collection_name_tesim] = List(<<CollectionTitle>>)

-----------------------------------------------------------------------------
(* feed_ursus.py: load_csv *)

\* What reaches the outside: [doc |-> record] is a record handed to
\* solr_client.add or printed, [print |-> text] is any other text printed.
Doc(rec) == [doc |-> rec]
Printed(text) == [print |-> text]

LoadColumns ==
    {"Item ARK", "Parent ARK", "Title", "Object Type", "Thumbnail URL",
     "IIIF Manifest URL", "Genre"}

LoadRow(ark, parent, title, type, thumbnail) ==
    ("Item ARK" :> ark) @@ ("Parent ARK" :> parent) @@ ("Title" :> title)
    @@ ("Object Type" :> Str(<<type>>)) @@ ("Thumbnail URL" :> thumbnail)
    @@ ("IIIF Manifest URL" :> None) @@ ("Genre" :> Str(<<"1">>))

LoadRows ==
    { LoadRow(CollectionArk, None, CollectionTitle, "Collection", None),
      LoadRow(WorkArk, CollectionArk, Str(<<"Codex">>), "Work", None),
      LoadRow(OtherArk, None, Str(<<"Roll">>), "Work", ThumbA),
      LoadRow(Str(<<"ark:/21198/page">>), WorkArk, FirstFolioRecto, "ChildWork", ThumbB),
      LoadRow(Str(<<"ark:/21198/leaf">>), WorkArk, Str(<<"f. 001v">>), "Page", None) }

LoadTables == UNION {[1..n -> LoadRows] : n \in 0..MaxRows}

\* FIELD_MAPPING with the rule of genre_tesim as given.
LoadFieldMapping(genre_rule) ==
    (ark_ssi :> [t |-> "callable", reads |-> "Item ARK"])
    @@ (genre_tesim :> genre_rule)
    @@ (iiif_manifest_url_ssi :> [t |-> "callable", reads |-> "IIIF Manifest URL"])
    @@ (thumbnail_url_ss :> [t |-> "callable", reads |-> "Thumbnail URL"])

LoadFieldMappings ==
    { LoadFieldMapping(rule) :
        rule \in {None, [t |-> "column", c |-> "Genre"], PyInt(5)} }

\* Lines 43-51: collection_names maps the Item ARK of every Collection row to
\* its Title.
CollectionNames(rows) ==
    LET collection_rows == {i \in DOMAIN rows : rows[i]["Object Type"] = Str(<<"Collection">>)}
        arks == {rows[i]["Item ARK"] : i \in collection_rows}
    IN [a \in arks |->
           rows[CHOOSE i \in collection_rows :
                    /\ rows[i]["Item ARK"] = a
                    /\ \A j \in collection_rows :
                           rows[j]["Item ARK"] = a => j <= i]["Title"]]

LoadConfig(rows) ==
    [collection_names |-> CollectionNames(rows),
     controlled_fields |-> (<<"genre">> :> PhotographTerms),
     data_frame |-> [columns |-> LoadColumns, rows |-> rows]]

InitLoad ==
    /\ DatesIdle
    /\ f_pc = "idle" /\ field_name = <<"id">> /\ mapping = None /\ f_result = None
    /\ row = <<>>
    /\ \E rows \in LoadTables : config = LoadConfig(rows)
    /\ r_pc = "idle" /\ record = <<>> /\ fetched = FALSE /\ thumb = None
    /\ response = [t |-> "error"]
    /\ field_mapping \in LoadFieldMappings
    /\ solr_client \in BOOLEAN
    /\ l_pc = "loop" /\ l_i = 0 /\ l_mapped = 0
    /\ first_row = TRUE
    \* lines 53-54
    /\ out = IF solr_client THEN <<>> ELSE <<Printed("[")>>

NextRow == config["data_frame"].rows[l_i + 1]

HasNextRow == l_pc = "loop" /\ l_i < Len(config["data_frame"].rows)

SkippedType(r) == r["Object Type"] \in {Str(<<"ChildWork">>), Str(<<"Page">>)}

\* lines 58-59: a ChildWork or a Page is passed over.
LoadSkip ==
    /\ HasNextRow /\ SkippedType(NextRow)
    /\ row' = NextRow
    /\ l_i' = l_i + 1
    /\ UNCHANGED <<l_pc, l_mapped, solr_client, first_row, out>>
    /\ UNCHANGED <<f_pc, field_name, mapping, config, f_result>>
    /\ UNCHANGED <<dates_vars, record_vars>>

\* lines 61-70: the row is mapped and the record is added to solr or printed.
LoadMapRecord ==
    /\ HasNextRow /\ ~SkippedType(NextRow)
    /\ ~IsRaise(map_record(NextRow, config, field_mapping, response))
    /\ row' = NextRow
    /\ l_i' = l_i + 1
    /\ l_mapped' = l_mapped + 1
    /\ first_row' = FALSE
    /\ out' = out
              \o (IF ~first_row /\ ~solr_client THEN <<Printed(", ")>> ELSE <<>>)
              \o <<Doc(map_record(NextRow, config, field_mapping, response))>>
    /\ UNCHANGED <<l_pc, solr_client>>
    /\ UNCHANGED <<f_pc, field_name, mapping, config, f_result>>
    /\ UNCHANGED <<dates_vars, record_vars>>

\* lines 61-66: map_record raises and the exception ends load_csv.
LoadRaise ==
    /\ HasNextRow /\ ~SkippedType(NextRow)
    /\ IsRaise(map_record(NextRow, config, field_mapping, response))
    /\ row' = NextRow
    /\ l_i' = l_i + 1
    /\ l_mapped' = l_mapped + 1
    /\ first_row' = FALSE
    /\ out' = out \o (IF ~first_row /\ ~solr_client THEN <<Printed(", ")>> ELSE <<>>)
    /\ l_pc' = "raised"
    /\ UNCHANGED <<solr_client>>
    /\ UNCHANGED <<f_pc, field_name, mapping, config, f_result>>
    /\ UNCHANGED <<dates_vars, record_vars>>

\* lines 72-73: the table is exhausted.
LoadDone ==
    /\ l_pc = "loop" /\ l_i = Len(config["data_frame"].rows)
    /\ l_pc' = "done"
    /\ out' = out \o (IF solr_client THEN <<>> ELSE <<Printed("]")>>)
    /\ UNCHANGED <<l_i, l_mapped, solr_client, first_row>>
    /\ UNCHANGED <<field_vars, dates_vars, record_vars>>

NextLoad ==
    \/ LoadSkip
    \/ LoadMapRecord
    \/ LoadRaise
    \/ LoadDone

SpecLoad == InitLoad /\ [][NextLoad]_vars

\* A rule that is neither None, nor callable, nor a string, nor a collection.
MalformedRule(m) == m # None /\ m.t \notin {"callable", "column", "columns"}

MalformedSchema == \E f \in DOMAIN field_mapping : MalformedRule(field_mapping[f])

=============================================================================
